---- MODULE Spec2Model ----
(***************************************************************************)
(* Model of the monitoring layer of src/src/monitor/setup.js: the          *)
(* module-level monitoringData object, the queue event listeners, the      *)
(* snapshot refresh, the performance rollup, the alert engine and the      *)
(* read-only accessors.                                                    *)
(*                                                                         *)
(* Encoding of JavaScript values                                           *)
(*   - an object is a record; a key whose value is undefined is an absent  *)
(*     key (the code only tests such keys with `!x`, `?.` and arithmetic,  *)
(*     which cannot tell the two apart); {} is the empty record <<>>;      *)
(*   - monitoringData.queues and monitoringData.performance are objects    *)
(*     used as maps and iterated with Object.entries/Object.values, so     *)
(*     they are sequences of [key, value] entries in insertion order;      *)
(*   - the numbers undefined and NaN that arithmetic on absent keys        *)
(*     produces are the sentinels `undefined` and `NaN`;                   *)
(*   - totalProcessingTime / jobCount is an exact rational [num, den];     *)
(*   - new Date() is the clock `now`; it advances when a timer fires, so   *)
(*     handlers running between two timer firings read the same time.      *)
(***************************************************************************)
EXTENDS Integers, Sequences, FiniteSets, TLC

\* ------------------------------------------------------------------------
\* Bounds of the model
\* ------------------------------------------------------------------------
MaxEvents == 2
MaxCycles == 1
MaxAlertTicks == 1
MaxRollups == 2
BurstLen == 101
BurstEvents == 1
MaxSteps == 3
MaxCalls == 3
MaxPersist == 9
MaxOverlap == 2

\* ------------------------------------------------------------------------
\* Program constants
\* ------------------------------------------------------------------------
EventCapacity == 100
AlertCapacity == 50
FailedThreshold == 10
WaitingThreshold == 100
SlowThreshold == 30000
HealthFailedThreshold == 10

undefined == -1
NaN == -2

\* the queues watched: the first two of the seven names of startQueueMonitoring
queueNames == << "email-queue", "image-processing-queue" >>

QueueSet == {queueNames[i] : i \in 1..Len(queueNames)}

IndexOf(queueName) == CHOOSE i \in 1..Len(queueNames) : queueNames[i] = queueName

\* ------------------------------------------------------------------------
\* JavaScript helpers
\* ------------------------------------------------------------------------
null == [null |-> TRUE]

\* o.f, undefined when the key is absent
Field(o, f) == IF f \in DOMAIN o THEN o[f] ELSE undefined

\* o?.f
OptField(o, f) == IF o = null THEN undefined ELSE Field(o, f)

IsNumber(x) == x # undefined /\ x # NaN

\* truthiness of a number or undefined
Truthy(x) == IsNumber(x) /\ x # 0

\* a + b on numbers
Plus(a, b) == IF IsNumber(a) /\ IsNumber(b) THEN a + b ELSE NaN

\* a > b on numbers: false as soon as one side is NaN or undefined
Greater(a, b) == IsNumber(a) /\ IsNumber(b) /\ a > b

\* the record {k: v}, or nothing when v is undefined
Key(k, v, defined) == IF defined THEN k :> v ELSE <<>>

\* array.slice(-n)
SliceLast(s, n) == IF Len(s) <= n THEN s ELSE SubSeq(s, Len(s) - n + 1, Len(s))

\* Object used as a map, in insertion order
Keys(obj) == [i \in 1..Len(obj) |-> obj[i].key]

Values(obj) == [i \in 1..Len(obj) |-> obj[i].value]

HasKey(obj, k) == \E i \in 1..Len(obj) : obj[i].key = k

Get(obj, k) == obj[CHOOSE i \in 1..Len(obj) : obj[i].key = k].value

Put(obj, k, v) ==
  IF HasKey(obj, k)
  THEN [i \in 1..Len(obj) |-> IF obj[i].key = k THEN [key |-> k, value |-> v] ELSE obj[i]]
  ELSE Append(obj, [key |-> k, value |-> v])

\* Exact rationals for the float divisions of the code
RECURSIVE Gcd(_, _)
Gcd(a, b) == IF b = 0 THEN a ELSE Gcd(b, a % b)

Rat(n, d) ==
  LET g == Gcd(IF n < 0 THEN -n ELSE n, d)
  IN  IF g = 0 THEN [num |-> 0, den |-> 1] ELSE [num |-> n \div g, den |-> d \div g]

RatAdd(x, y) == Rat(x.num * y.den + y.num * x.den, x.den * y.den)

RatGreater(x, n) == x.num > n * x.den

\* Math.round
Round(x) == (2 * x.num + x.den) \div (2 * x.den)

RECURSIVE SumSeq(_)
SumSeq(s) == IF s = <<>> THEN 0 ELSE Head(s) + SumSeq(Tail(s))

\* ------------------------------------------------------------------------
\* Inputs delivered by the Job Queue Backend
\* ------------------------------------------------------------------------
\* job records: timestamp is the enqueue time, processedOn the processing time
jobFast == [id |-> "1", name |-> "send-email", timestamp |-> 1000, processedOn |-> 3000]
jobSlow == [id |-> "2", name |-> "resize", timestamp |-> 1000, processedOn |-> 41000]
jobEpoch == [id |-> "3", name |-> "send-email", timestamp |-> 0, processedOn |-> 5000]
jobUnprocessed == [id |-> "4", name |-> "send-email", timestamp |-> 1000]

Jobs == {jobFast, jobSlow, jobEpoch, jobUnprocessed}

errBoom == [message |-> "boom"]

\* what the six status queries of one refresh return (array lengths and
\* the paused flag), or the failure of one of them
answerEdge ==
  [waiting |-> 100, active |-> 1, completed |-> 2, failed |-> 10, delayed |-> 0, paused |-> FALSE]
answerBad ==
  [waiting |-> 101, active |-> 1, completed |-> 2, failed |-> 11, delayed |-> 1, paused |-> TRUE]

Answers == {answerEdge, answerBad}

queryFailed == [rejected |-> TRUE]

\* a repeatable job of the backend; its key is made of the name and the pattern
Repeatable(name, pattern) ==
  [name |-> name, pattern |-> pattern, key |-> name \o ":" \o pattern]

\* the schedules setupRecurringJobs registers at startup: the first two of seven
defaultRepeatables ==
  {Repeatable("daily-cleanup", "0 2 * * *"), Repeatable("hourly-health-check", "0 * * * *")}

\* cron patterns the backend parses, and one it rejects
ValidPatterns == {"0 2 * * *", "0 3 * * *"}

Patterns == ValidPatterns \cup {"every night"}

\* names given to the registry: one unused at startup, one of the defaults
JobNames == {"nightly", "daily-cleanup"}

\* the options argument: its default {} or an object with its own repeat key
noOptions == <<>>

ownRepeat == << [key |-> "repeat", value |-> [pattern |-> "0 3 * * *"]] >>

OptionsSet == {noOptions, ownRepeat}

\* { ...obj, ...src }
RECURSIVE Spread(_, _)
Spread(obj, src) ==
  IF src = <<>> THEN obj
  ELSE Spread(Put(obj, Head(src).key, Head(src).value), Tail(src))

\* { repeat: { pattern: cronPattern }, ...options }
JobOptions(cronPattern, options) ==
  Spread(<< [key |-> "repeat", value |-> [pattern |-> cronPattern]] >>, options)

\* recurringQueue.add as the backend settles it: with the connection up and a
\* pattern it parses, the repeatable entry of that name and pattern exists
\* afterwards; otherwise the call rejects and nothing is stored
QueueAdd(set, name, opts, up) ==
  LET pattern == Get(opts, "repeat").pattern
  IN  IF up /\ pattern \in ValidPatterns
      THEN [ok |-> TRUE, repeatables |-> set \cup {Repeatable(name, pattern)}]
      ELSE [ok |-> FALSE, repeatables |-> set]

\* addCustomRecurringJob trying the backend a second time after a rejection
addCustomRecurringJobRetrying(set, name, cronPattern, options, up) ==
  LET first == QueueAdd(set, name, JobOptions(cronPattern, options), up)
      second == QueueAdd(set, name, JobOptions(cronPattern, options), TRUE)
  IN  IF first.ok
      THEN [repeatables |-> first.repeatables, result |-> "job", requests |-> << "add" >>]
      ELSE [repeatables |-> second.repeatables,
            result |-> IF second.ok THEN "job" ELSE "error",
            requests |-> << "add", "add" >>]

\* the outcome of addCustomRecurringJob: the backend's set afterwards, the
\* job handle returned or the error rethrown, and the requests issued
addCustomRecurringJob(set, name, cronPattern, options, up) ==
  LET answer == QueueAdd(set, name, JobOptions(cronPattern, options), up)
  IN  [repeatables |-> answer.repeatables,
       result |-> IF answer.ok THEN "job" ELSE "error",
       requests |-> << "add" >>]

\* repeatableJobs.find(job => job.name === name): the first entry of that
\* name in the order of the backend's answer, which may be any of them
Found(set, name) ==
  IF \E job \in set : job.name = name THEN {job \in set : job.name = name} ELSE {null}

\* removeRecurringJob rejecting a name that is not registered
removeRecurringJobStrict(set, name, job, listed, removed) ==
  IF ~listed \/ job = null
  THEN [repeatables |-> set, result |-> "error", requests |-> << "getRepeatableJobs" >>]
  ELSE IF ~removed
       THEN [repeatables |-> set, result |-> "error",
             requests |-> << "getRepeatableJobs", "removeRepeatableByKey" >>]
       ELSE [repeatables |-> {other \in set : other.key # job.key}, result |-> "true",
             requests |-> << "getRepeatableJobs", "removeRepeatableByKey" >>]

\* the outcome of removeRecurringJob when find returns job, the listing is
\* answered or not (listed) and the removal is carried out or not (removed)
removeRecurringJob(set, name, job, listed, removed) ==
  IF ~listed
  THEN [repeatables |-> set, result |-> "error", requests |-> << "getRepeatableJobs" >>]
  ELSE IF job = null
       THEN [repeatables |-> set, result |-> "false",
             requests |-> << "getRepeatableJobs" >>]
       ELSE IF ~removed
            THEN [repeatables |-> set, result |-> "error",
                  requests |-> << "getRepeatableJobs", "removeRepeatableByKey" >>]
            ELSE [repeatables |-> {other \in set : other.key # job.key},
                  result |-> "true",
                  requests |-> << "getRepeatableJobs", "removeRepeatableByKey" >>]

\* the entry getRecurringJobs returns for a repeatable job (next and id are
\* the backend's and are passed through like the key)
Listed(job) == [name |-> job.name, pattern |-> job.pattern, key |-> job.key]

\* getRecurringJobs answering from the schedules registered at startup
getRecurringJobsCached(set, listed) ==
  IF listed
  THEN [result |-> "jobs", jobs |-> {Listed(job) : job \in defaultRepeatables},
        requests |-> <<>>]
  ELSE [result |-> "error", jobs |-> {}, requests |-> << "getRepeatableJobs" >>]

\* the outcome of getRecurringJobs
getRecurringJobs(set, listed) ==
  IF listed
  THEN [result |-> "jobs", jobs |-> {Listed(job) : job \in set},
        requests |-> << "getRepeatableJobs" >>]
  ELSE [result |-> "error", jobs |-> {}, requests |-> << "getRepeatableJobs" >>]

\* ------------------------------------------------------------------------
\* State
\* ------------------------------------------------------------------------
VARIABLES
  queues,        \* monitoringData.queues
  performance,   \* monitoringData.performance
  alerts,        \* monitoringData.alerts
  notices,       \* the critical-alert lines written to the operator log
  setupIdx,      \* startQueueMonitoring: index of the queue whose initial status is awaited
  cycles,        \* refresh interval callbacks in flight: [id, idx, stage]
  now,           \* the clock read by new Date()
  raised,        \* what the callback that ran last threw: "none", "ingest" or "refresh"
  used,          \* history: how many events and timer ticks have run, and how many
                 \* clearAlerts calls ran in a row just now (0, 1, or 2 for two and more)
  ingested,      \* history: every event record appended, per queue
  created,       \* history: every alert created since the last clearAlerts
  failedSeen,    \* history: number of failed events delivered, per queue
  procTimes,     \* history: processedOn - timestamp of every completed event carrying both
  exited,        \* process.exit has run
  repeatables,   \* the repeatable jobs the backend holds for the recurring queue
  callLog        \* history: the registry calls made so far, with their results

vars == << queues, performance, alerts, notices, setupIdx, cycles, now,
           raised, used, ingested, created, failedSeen, procTimes,
           exited, repeatables, callLog >>

monitor == << queues, performance, alerts, notices, setupIdx, cycles, now,
              raised, used, ingested, created, failedSeen, procTimes >>

program == << queues, performance, alerts, notices, setupIdx, cycles >>

Init ==
  /\ queues = <<>>
  /\ performance = <<>>
  /\ alerts = <<>>
  /\ notices = <<>>
  /\ setupIdx = 1
  /\ cycles = <<>>
  /\ now = 1
  /\ raised = "none"
  /\ used = [events |-> 0, cycles |-> 0, alertTicks |-> 0, rollups |-> 0, clears |-> 0]
  /\ ingested = [q \in QueueSet |-> <<>>]
  /\ created = <<>>
  /\ failedSeen = [q \in QueueSet |-> 0]
  /\ procTimes = [q \in QueueSet |-> <<>>]
  /\ exited = FALSE
  /\ repeatables = defaultRepeatables
  /\ callLog = <<>>

\* Listening with the listeners held back while a refresh pass awaits the backend
ListeningWhenIdle(queueName) == IndexOf(queueName) <= setupIdx /\ cycles = <<>>

\* startQueueMonitoring has registered the listeners of the queues up to setupIdx
Listening(queueName) == IndexOf(queueName) <= setupIdx

\* setupMonitor has returned: the timers run and the HTTP server listens
Serving == setupIdx > Len(queueNames)

\* ------------------------------------------------------------------------
\* Event Ingestor
\* ------------------------------------------------------------------------
\* the eventData object of addMonitoringEvent
EventData(queueName, event, job, error, t) ==
  [queueName |-> queueName, event |-> event, timestamp |-> t]
    @@ Key("jobId", OptField(job, "id"), job # null /\ "id" \in DOMAIN job)
    @@ Key("jobName", OptField(job, "name"), job # null /\ "name" \in DOMAIN job)
    @@ Key("error", OptField(error, "message"), error # null /\ "message" \in DOMAIN error)

\* PushEvent trimming one entry too few
PushEventOffByOne(events, eventData) ==
  LET pushed == Append(events, eventData)
  IN  IF Len(pushed) > EventCapacity THEN SliceLast(pushed, EventCapacity + 1) ELSE pushed

\* events.push(eventData) followed by the trim to the last 100
PushEvent(events, eventData) ==
  LET pushed == Append(events, eventData)
  IN  IF Len(pushed) > EventCapacity THEN SliceLast(pushed, EventCapacity) ELSE pushed

\* the value of monitoringData.queues after addMonitoringEvent
addMonitoringEvent(qs, queueName, event, job, error, t) ==
  LET withSnapshot == IF ~HasKey(qs, queueName) THEN Put(qs, queueName, <<>>) ELSE qs
      snapshot == Get(withSnapshot, queueName)
      events == IF "events" \notin DOMAIN snapshot THEN <<>> ELSE snapshot.events
  IN  Put(withSnapshot, queueName,
          ("events" :> PushEvent(events, EventData(queueName, event, job, error, t)))
            @@ snapshot)

\* ------------------------------------------------------------------------
\* Performance Aggregator
\* ------------------------------------------------------------------------
newMetrics ==
  [completed |-> 0, failed |-> 0, avgProcessingTime |-> Rat(0, 1),
   totalProcessingTime |-> 0, jobCount |-> 0]

\* RecordCompleted counting every completed job into jobCount
RecordCompletedCountingAll(metrics, job) ==
  LET counted == [metrics EXCEPT !.completed = @ + 1, !.jobCount = @ + 1]
  IN  IF Truthy(Field(job, "processedOn")) /\ Truthy(Field(job, "timestamp"))
      THEN LET total == counted.totalProcessingTime + (job.processedOn - job.timestamp)
           IN  [counted EXCEPT !.totalProcessingTime = total,
                               !.avgProcessingTime = Rat(total, counted.jobCount)]
      ELSE counted

\* the `completed` branch on a job object
RecordCompleted(metrics, job) ==
  LET counted == [metrics EXCEPT !.completed = @ + 1]
  IN  IF Truthy(Field(job, "processedOn")) /\ Truthy(Field(job, "timestamp"))
      THEN LET processingTime == job.processedOn - job.timestamp
               total == counted.totalProcessingTime + processingTime
               jobCount == counted.jobCount + 1
           IN  [counted EXCEPT !.totalProcessingTime = total,
                               !.jobCount = jobCount,
                               !.avgProcessingTime = Rat(total, jobCount)]
      ELSE counted

\* RecordFailed counting the failed job into the timing average
RecordFailedAsJob(metrics) ==
  [metrics EXCEPT !.failed = @ + 1, !.jobCount = @ + 1,
                  !.avgProcessingTime = Rat(metrics.totalProcessingTime, metrics.jobCount + 1)]

\* the `failed` branch
RecordFailed(metrics) == [metrics EXCEPT !.failed = @ + 1]

\* the value of monitoringData.performance after updatePerformanceMetrics and
\* whether the call threw: job.processedOn on a missing job is a TypeError,
\* raised after metrics.completed++ has run
updatePerformanceMetrics(perf, queueName, event, job) ==
  LET withMetrics == IF ~HasKey(perf, queueName) THEN Put(perf, queueName, newMetrics) ELSE perf
      metrics == Get(withMetrics, queueName)
  IN  IF event = "completed"
      THEN IF job = null
           THEN [performance |-> Put(withMetrics, queueName, [metrics EXCEPT !.completed = @ + 1]),
                 raised |-> TRUE]
           ELSE [performance |-> Put(withMetrics, queueName, RecordCompleted(metrics, job)),
                 raised |-> FALSE]
      ELSE IF event = "failed"
           THEN [performance |-> Put(withMetrics, queueName, RecordFailed(metrics)),
                 raised |-> FALSE]
           ELSE [performance |-> withMetrics, raised |-> FALSE]

\* ------------------------------------------------------------------------
\* Alert Engine
\* ------------------------------------------------------------------------
\* Severity without the test that an error came with the failed event
SeverityIgnoringError(event, error) ==
  IF event = "failed" THEN "error"
  ELSE IF event = "stalled" THEN "warning"
  ELSE IF event = "error" THEN "critical"
  ELSE "warning"

\* the severity chosen by checkForAlerts
Severity(event, error) ==
  IF event = "failed" /\ error # null THEN "error"
  ELSE IF event = "stalled" THEN "warning"
  ELSE IF event = "error" THEN "critical"
  ELSE "warning"

\* the alert object built by checkForAlerts
Alert(queueName, event, error, t) ==
  [queueName |-> queueName, event |-> event, timestamp |-> t,
   severity |-> Severity(event, error)]
    @@ Key("error", OptField(error, "message"), error # null /\ "message" \in DOMAIN error)

\* PushAlert keeping the first 50 instead of the last 50
PushAlertKeepOldest(log, alert) ==
  LET pushed == Append(log, alert)
  IN  IF Len(pushed) > AlertCapacity THEN SubSeq(pushed, 1, AlertCapacity) ELSE pushed

\* alerts.push(alert) followed by the trim to the last 50
PushAlert(log, alert) ==
  LET pushed == Append(log, alert)
  IN  IF Len(pushed) > AlertCapacity THEN SliceLast(pushed, AlertCapacity) ELSE pushed

\* Notify writing the console line for an alert of any severity
NotifyAnySeverity(out, alert) ==
  Append(out, [queueName |-> alert.queueName, event |-> alert.event])

\* the operator log after the `CRITICAL ALERT` console line
Notify(out, alert) ==
  IF alert.severity = "critical"
  THEN Append(out, [queueName |-> alert.queueName, event |-> alert.event])
  ELSE out

\* checkForAlerts on the pair [alerts, notices]
checkForAlerts(st, queueName, event, error, t) ==
  LET alert == Alert(queueName, event, error, t)
  IN  [alerts |-> PushAlert(st.alerts, alert), notices |-> Notify(st.notices, alert)]

Call(queueName, event, message) ==
  [queueName |-> queueName, event |-> event, error |-> [message |-> message]]

\* QueueHealthCalls alerting from the thresholds on instead of above them
QueueHealthCallsInclusive(queueName, status) ==
  (IF Greater(Field(status, "failed"), FailedThreshold - 1)
   THEN << Call(queueName, "high-failure-rate",
                "High failure rate: " \o ToString(status.failed) \o " failed jobs") >>
   ELSE <<>>)
  \o
  (IF Greater(Field(status, "waiting"), WaitingThreshold - 1)
   THEN << Call(queueName, "queue-backlog",
                "Queue backlog: " \o ToString(status.waiting) \o " waiting jobs") >>
   ELSE <<>>)
  \o
  (IF "paused" \in DOMAIN status /\ status.paused
   THEN << Call(queueName, "queue-paused", "Queue is paused") >>
   ELSE <<>>)

\* the checkForAlerts calls checkQueueHealth makes for one entry of queues
QueueHealthCalls(queueName, status) ==
  (IF Greater(Field(status, "failed"), FailedThreshold)
   THEN << Call(queueName, "high-failure-rate",
                "High failure rate: " \o ToString(status.failed) \o " failed jobs") >>
   ELSE <<>>)
  \o
  (IF Greater(Field(status, "waiting"), WaitingThreshold)
   THEN << Call(queueName, "queue-backlog",
                "Queue backlog: " \o ToString(status.waiting) \o " waiting jobs") >>
   ELSE <<>>)
  \o
  (IF "paused" \in DOMAIN status /\ status.paused
   THEN << Call(queueName, "queue-paused", "Queue is paused") >>
   ELSE <<>>)

\* the checkForAlerts calls checkPerformanceAlerts makes for one entry of performance
PerformanceCalls(queueName, metrics) ==
  LET totalJobs == Plus(Field(metrics, "completed"), Field(metrics, "failed"))
  IN  (IF RatGreater(metrics.avgProcessingTime, SlowThreshold)
       THEN << Call(queueName, "slow-processing",
                    "Slow processing: " \o ToString(Round(metrics.avgProcessingTime))
                      \o "ms average") >>
       ELSE <<>>)
      \o
      (IF Greater(totalJobs, 0) /\ 5 * metrics.failed > totalJobs
       THEN << Call(queueName, "high-failure-rate",
                    "High failure rate: "
                      \o ToString(Round(Rat(100 * metrics.failed, totalJobs))) \o "%") >>
       ELSE <<>>)

RECURSIVE Concat(_)
Concat(ss) == IF ss = <<>> THEN <<>> ELSE Head(ss) \o Concat(Tail(ss))

\* the calls of checkQueueHealth: a forEach over Object.entries(queues)
AllHealthCalls(qs) ==
  Concat([i \in 1..Len(qs) |-> QueueHealthCalls(qs[i].key, qs[i].value)])

\* the calls of checkPerformanceAlerts: a forEach over Object.entries(performance)
AllPerformanceCalls(perf) ==
  Concat([i \in 1..Len(perf) |-> PerformanceCalls(perf[i].key, perf[i].value)])

RECURSIVE ApplyCalls(_, _, _)
ApplyCalls(st, calls, t) ==
  IF calls = <<>> THEN st
  ELSE ApplyCalls(checkForAlerts(st, Head(calls).queueName, Head(calls).event,
                                 Head(calls).error, t),
                  Tail(calls), t)

checkQueueHealth(st, qs, t) == ApplyCalls(st, AllHealthCalls(qs), t)

checkPerformanceAlerts(st, perf, t) == ApplyCalls(st, AllPerformanceCalls(perf), t)

\* the alert objects a sequence of checkForAlerts calls builds
AlertsOf(calls, t) ==
  [i \in 1..Len(calls) |-> Alert(calls[i].queueName, calls[i].event, calls[i].error, t)]

\* ------------------------------------------------------------------------
\* Snapshot Refresher
\* ------------------------------------------------------------------------
\* StatusObject with the completed and failed counts exchanged
StatusObjectSwapped(answer, t) ==
  [waiting |-> answer.waiting, active |-> answer.active, completed |-> answer.failed,
   failed |-> answer.completed, delayed |-> answer.delayed, paused |-> answer.paused,
   lastUpdated |-> t]

\* the object assigned to monitoringData.queues[queueName] by updateQueueStatus
StatusObject(answer, t) ==
  [waiting |-> answer.waiting, active |-> answer.active, completed |-> answer.completed,
   failed |-> answer.failed, delayed |-> answer.delayed, paused |-> answer.paused,
   lastUpdated |-> t]

\* updateQueueStatus dropping the snapshot of the queue when the queries fail
updateQueueStatusResetting(qs, queueName, answer, t) ==
  IF answer = queryFailed
  THEN SelectSeq(qs, LAMBDA entry : entry.key # queueName)
  ELSE Put(qs, queueName, StatusObject(answer, t))

\* the value of monitoringData.queues once the awaited queries of
\* updateQueueStatus have settled: assigned on success, only logged on failure
updateQueueStatus(qs, queueName, answer, t) ==
  IF answer = queryFailed THEN qs ELSE Put(qs, queueName, StatusObject(answer, t))

\* ------------------------------------------------------------------------
\* System rollup
\* ------------------------------------------------------------------------
RECURSIVE TotalJobs(_)
TotalJobs(values) ==
  IF values = <<>> THEN 0
  ELSE LET metrics == values[Len(values)]
       IN  Plus(Plus(TotalJobs(SubSeq(values, 1, Len(values) - 1)),
                     Field(metrics, "completed")),
                Field(metrics, "failed"))

RECURSIVE SumAvg(_)
SumAvg(values) ==
  IF values = <<>> THEN Rat(0, 1)
  ELSE RatAdd(SumAvg(SubSeq(values, 1, Len(values) - 1)),
              values[Len(values)].avgProcessingTime)

\* sum / Object.keys(performance).length || 0
SystemAvg(perf) ==
  IF Len(perf) = 0 THEN Rat(0, 1)
  ELSE LET sum == SumAvg(Values(perf)) IN Rat(sum.num, sum.den * Len(perf))

\* the value of monitoringData.performance after one tick of the rollup timer
SystemRollup(perf, t) ==
  Put(perf, "system",
      [totalJobs |-> TotalJobs(Values(perf)), avgProcessingTime |-> SystemAvg(perf),
       timestamp |-> t])

\* ------------------------------------------------------------------------
\* Query Facade
\* ------------------------------------------------------------------------
RECURSIVE SumField(_, _)
SumField(values, f) ==
  IF values = <<>> THEN 0
  ELSE Plus(SumField(SubSeq(values, 1, Len(values) - 1), f), Field(values[Len(values)], f))

\* CountCritical looking at the ten newest alerts only
CountCriticalRecent(log) ==
  Cardinality({i \in 1..Len(log) : i > Len(log) - 10 /\ log[i].severity = "critical"})

CountCritical(log) == Cardinality({i \in 1..Len(log) : log[i].severity = "critical"})

getSystemHealth ==
  LET totalWaiting == SumField(Values(queues), "waiting")
      totalActive == SumField(Values(queues), "active")
      totalFailed == SumField(Values(queues), "failed")
      criticalAlerts == CountCritical(alerts)
  IN  [status |-> IF criticalAlerts > 0 THEN "critical"
                  ELSE IF Greater(totalFailed, HealthFailedThreshold) THEN "warning"
                  ELSE "healthy",
       queues |-> Len(queues),
       totalWaiting |-> totalWaiting,
       totalActive |-> totalActive,
       totalFailed |-> totalFailed,
       criticalAlerts |-> criticalAlerts,
       timestamp |-> now]

\* names every object literal inherits from Object.prototype (three of them)
PrototypeKeys == {"constructor", "toString", "__proto__"}

\* the function or object a property access finds on the prototype chain
inherited == [inherited |-> TRUE]

\* obj[k] || null on an object literal used as a map: an own entry (always
\* an object, so truthy), else what the prototype chain holds under k, else
\* undefined and therefore null
OrNull(obj, k) ==
  IF HasKey(obj, k) THEN Get(obj, k)
  ELSE IF k \in PrototypeKeys THEN inherited
  ELSE null

getQueueStatus(queueName) == OrNull(queues, queueName)

getPerformanceMetrics(queueName) == OrNull(performance, queueName)

\* Array.prototype.slice(-n) for n >= 0: -0 is 0, so slice(-0) is the whole array
SliceFromEnd(s, n) == IF n = 0 THEN s ELSE SliceLast(s, n)

\* Array.prototype.slice(0, n)
SliceFirst(s, n) == IF Len(s) <= n THEN s ELSE SubSeq(s, 1, n)

\* allEvents.sort((a, b) => new Date(b.timestamp) - new Date(a.timestamp)):
\* a stable sort, newest first
RECURSIVE SortNewestFirst(_)
SortNewestFirst(s) ==
  IF s = <<>> THEN <<>>
  ELSE LET rest == SortNewestFirst(SubSeq(s, 1, Len(s) - 1))
           e == s[Len(s)]
           k == Cardinality({i \in 1..Len(rest) : rest[i].timestamp >= e.timestamp})
       IN  SubSeq(rest, 1, k) \o << e >> \o SubSeq(rest, k + 1, Len(rest))

\* the events of all queues in the order of Object.entries(queues)
AllEvents(qs) ==
  Concat([i \in 1..Len(qs) |->
            IF "events" \in DOMAIN qs[i].value
            THEN [j \in 1..Len(qs[i].value.events) |->
                    [qs[i].value.events[j] EXCEPT !.queueName = qs[i].key]]
            ELSE <<>>])

\* GET /events: data.events for the query ?queueName=..&limit=..; queueName ""
\* stands for the absent parameter and limit for parseInt(limit)
getEvents(queueName, limit) ==
  IF queueName # ""
  THEN LET queueEvents == IF HasKey(queues, queueName)
                               /\ "events" \in DOMAIN Get(queues, queueName)
                          THEN Get(queues, queueName).events
                          ELSE <<>>
       IN  SliceFromEnd(queueEvents, limit)
  ELSE SliceFirst(SortNewestFirst(AllEvents(queues)), limit)

\* severity "" stands for the absent (falsy) argument
getAlerts(severity) ==
  IF severity # "" THEN SelectSeq(alerts, LAMBDA alert : alert.severity = severity)
  ELSE alerts

\* ------------------------------------------------------------------------
\* Handlers
\* ------------------------------------------------------------------------
\* bookkeeping of a callback of the monitor, which runs while the process is
\* alive and leaves the recurring queue alone: whether it threw and the budget
\* it draws on; a timer callback runs one clock step later than whatever ran
\* before it
Ran(threw, budget) ==
  /\ ~exited
  /\ raised' = threw
  /\ now' = IF budget \in {"cycles", "rollups", "alertTicks"} THEN now + 1 ELSE now
  /\ used' = IF budget = "clears"
             THEN [used EXCEPT !.clears = IF @ < 2 THEN @ + 1 ELSE @]
             ELSE IF budget = ""
                  THEN [used EXCEPT !.clears = 0]
                  ELSE [used EXCEPT ![budget] = @ + 1, !.clears = 0]
  /\ UNCHANGED << exited, repeatables, callLog >>

Logged(queueName, event, job, error) ==
  ingested' = [ingested EXCEPT ![queueName] =
                 Append(@, EventData(queueName, event, job, error, now))]

\* OnWaiting forwarding the event to the Performance Aggregator as well
OnWaitingMeasured(queueName, job) ==
  /\ Listening(queueName)
  /\ queues' = addMonitoringEvent(queues, queueName, "waiting", job, null, now)
  /\ performance' = updatePerformanceMetrics(performance, queueName, "waiting", job).performance
  /\ Ran("none", "events")
  /\ Logged(queueName, "waiting", job, null)
  /\ UNCHANGED << alerts, notices, setupIdx, cycles, created, failedSeen, procTimes >>

\* queue.on('waiting')
OnWaiting(queueName, job) ==
  /\ Listening(queueName)
  /\ queues' = addMonitoringEvent(queues, queueName, "waiting", job, null, now)
  /\ Ran("none", "events")
  /\ Logged(queueName, "waiting", job, null)
  /\ UNCHANGED << performance, alerts, notices, setupIdx, cycles, created, failedSeen, procTimes >>

\* queue.on('active')
OnActive(queueName, job) ==
  /\ Listening(queueName)
  /\ queues' = addMonitoringEvent(queues, queueName, "active", job, null, now)
  /\ Ran("none", "events")
  /\ Logged(queueName, "active", job, null)
  /\ UNCHANGED << performance, alerts, notices, setupIdx, cycles, created, failedSeen, procTimes >>

\* queue.on('completed')
OnCompleted(queueName, job) ==
  LET updated == updatePerformanceMetrics(performance, queueName, "completed", job)
  IN  /\ Listening(queueName)
      /\ queues' = addMonitoringEvent(queues, queueName, "completed", job, null, now)
      /\ performance' = updated.performance
      /\ Ran(IF updated.raised THEN "ingest" ELSE "none", "events")
      /\ Logged(queueName, "completed", job, null)
      /\ procTimes' =
           IF job # null /\ "processedOn" \in DOMAIN job /\ "timestamp" \in DOMAIN job
           THEN [procTimes EXCEPT ![queueName] = Append(@, job.processedOn - job.timestamp)]
           ELSE procTimes
      /\ UNCHANGED << alerts, notices, setupIdx, cycles, created, failedSeen >>

\* queue.on('failed')
OnFailed(queueName, job, err) ==
  LET updated == updatePerformanceMetrics(performance, queueName, "failed", job)
      st == checkForAlerts([alerts |-> alerts, notices |-> notices],
                           queueName, "failed", err, now)
  IN  /\ Listening(queueName)
      /\ queues' = addMonitoringEvent(queues, queueName, "failed", job, err, now)
      /\ performance' = updated.performance
      /\ alerts' = st.alerts
      /\ notices' = st.notices
      /\ Ran(IF updated.raised THEN "ingest" ELSE "none", "events")
      /\ Logged(queueName, "failed", job, err)
      /\ created' = Append(created, Alert(queueName, "failed", err, now))
      /\ failedSeen' = [failedSeen EXCEPT ![queueName] = @ + 1]
      /\ UNCHANGED << setupIdx, cycles, procTimes >>

\* OnStalled without its checkForAlerts call
OnStalledSilent(queueName, job) ==
  /\ Listening(queueName)
  /\ queues' = addMonitoringEvent(queues, queueName, "stalled", job, null, now)
  /\ Ran("none", "events")
  /\ Logged(queueName, "stalled", job, null)
  /\ UNCHANGED << performance, alerts, notices, setupIdx, cycles, created, failedSeen, procTimes >>

\* queue.on('stalled')
OnStalled(queueName, job) ==
  LET st == checkForAlerts([alerts |-> alerts, notices |-> notices],
                           queueName, "stalled", null, now)
  IN  /\ Listening(queueName)
      /\ queues' = addMonitoringEvent(queues, queueName, "stalled", job, null, now)
      /\ alerts' = st.alerts
      /\ notices' = st.notices
      /\ Ran("none", "events")
      /\ Logged(queueName, "stalled", job, null)
      /\ created' = Append(created, Alert(queueName, "stalled", null, now))
      /\ UNCHANGED << performance, setupIdx, cycles, failedSeen, procTimes >>

\* queue.on('error')
OnError(queueName, err) ==
  LET st == checkForAlerts([alerts |-> alerts, notices |-> notices],
                           queueName, "error", err, now)
  IN  /\ Listening(queueName)
      /\ queues' = addMonitoringEvent(queues, queueName, "error", null, err, now)
      /\ alerts' = st.alerts
      /\ notices' = st.notices
      /\ Ran("none", "events")
      /\ Logged(queueName, "error", null, err)
      /\ created' = Append(created, Alert(queueName, "error", err, now))
      /\ UNCHANGED << performance, setupIdx, cycles, failedSeen, procTimes >>

\* startQueueMonitoring: the awaited initial updateQueueStatus of the queue
\* at setupIdx settles; the loop registers the listeners of the next queue
InitialStatus(answer) ==
  /\ ~Serving
  /\ queues' = updateQueueStatus(queues, queueNames[setupIdx], answer, now)
  /\ setupIdx' = setupIdx + 1
  /\ Ran("none", "")
  /\ UNCHANGED << performance, alerts, notices, cycles, ingested, created, failedSeen, procTimes >>

\* the 30 s timer fires: a new pass over queueNames starts with its first query
RefreshTick ==
  /\ Serving
  /\ cycles' = Append(cycles, [id |-> used.cycles + 1, idx |-> 1, stage |-> "status"])
  /\ Ran("none", "cycles")
  /\ UNCHANGED << queues, performance, alerts, notices, setupIdx, ingested, created,
                  failedSeen, procTimes >>

\* the awaited updateQueueStatus of pass i settles; queue.close() is awaited next
CycleStatus(i, answer) ==
  /\ i \in 1..Len(cycles)
  /\ cycles[i].stage = "status"
  /\ queues' = updateQueueStatus(queues, queueNames[cycles[i].idx], answer, now)
  /\ cycles' = [cycles EXCEPT ![i].stage = "close"]
  /\ Ran("none", "")
  /\ UNCHANGED << performance, alerts, notices, setupIdx, ingested, created,
                  failedSeen, procTimes >>

RemoveAt(s, i) == SubSeq(s, 1, i - 1) \o SubSeq(s, i + 1, Len(s))

\* the awaited queue.close() of pass i settles: the loop moves to the next
\* queue, or the callback ends (after the last queue, or by the rejection)
CycleClose(i, closed) ==
  /\ i \in 1..Len(cycles)
  /\ cycles[i].stage = "close"
  /\ cycles' = IF closed /\ cycles[i].idx < Len(queueNames)
               THEN [cycles EXCEPT ![i] = [@ EXCEPT !.idx = @ + 1, !.stage = "status"]]
               ELSE RemoveAt(cycles, i)
  /\ Ran(IF closed THEN "none" ELSE "refresh", "")
  /\ UNCHANGED << queues, performance, alerts, notices, setupIdx, ingested, created,
                  failedSeen, procTimes >>

\* the 60 s timer of startPerformanceMonitoring fires
RollupTick ==
  /\ Serving
  /\ performance' = SystemRollup(performance, now + 1)
  /\ Ran("none", "rollups")
  /\ UNCHANGED << queues, alerts, notices, setupIdx, cycles, ingested, created,
                  failedSeen, procTimes >>

\* the 10 s timer of startAlertSystem fires
AlertTick ==
  LET health == checkQueueHealth([alerts |-> alerts, notices |-> notices], queues, now + 1)
      st == checkPerformanceAlerts(health, performance, now + 1)
  IN  /\ Serving
      /\ alerts' = st.alerts
      /\ notices' = st.notices
      /\ Ran("none", "alertTicks")
      /\ created' = created \o AlertsOf(AllHealthCalls(queues), now + 1)
                            \o AlertsOf(AllPerformanceCalls(performance), now + 1)
      /\ UNCHANGED << queues, performance, setupIdx, cycles, ingested, failedSeen, procTimes >>

\* clearAlerts keeping the newest alert
clearAlertsKeepNewest(log) == SliceLast(log, 1)

\* monitoringData.alerts after clearAlerts
clearAlerts(log) == <<>>

\* ClearAlerts resetting the performance metrics as well
ClearAlertsAndMetrics ==
  /\ Serving
  /\ alerts' = clearAlerts(alerts)
  /\ performance' = <<>>
  /\ Ran("none", "clears")
  /\ created' = <<>>
  /\ UNCHANGED << queues, notices, setupIdx, cycles, ingested, failedSeen, procTimes >>

\* DELETE /alerts
ClearAlerts ==
  /\ Serving
  /\ alerts' = clearAlerts(alerts)
  /\ Ran("none", "clears")
  /\ created' = <<>>
  /\ UNCHANGED << queues, performance, notices, setupIdx, cycles, ingested, failedSeen,
                  procTimes >>

\* a call of the registry made while the process is alive: the monitor is left
\* alone and the call is recorded with the set it found
Called(entry) ==
  /\ ~exited
  /\ callLog' = Append(callLog, entry @@ [before |-> repeatables])
  /\ UNCHANGED << monitor, exited >>

\* addCustomRecurringJob(name, data, cronPattern, options); data is passed
\* through to the backend unread
AddCustomRecurringJob(name, cronPattern, options, up) ==
  LET outcome == addCustomRecurringJob(repeatables, name, cronPattern, options, up)
  IN  /\ repeatables' = outcome.repeatables
      /\ Called([op |-> "add", name |-> name, pattern |-> cronPattern,
                 options |-> options,
                 failed |-> ~QueueAdd(repeatables, name,
                                      JobOptions(cronPattern, options), up).ok,
                 result |-> outcome.result, requests |-> outcome.requests,
                 jobs |-> {}])

\* removeRecurringJob(name)
RemoveRecurringJob(name, job, listed, removed) ==
  LET outcome == removeRecurringJob(repeatables, name, job, listed, removed)
  IN  /\ job \in Found(repeatables, name)
      /\ repeatables' = outcome.repeatables
      /\ Called([op |-> "remove", name |-> name, pattern |-> "",
                 options |-> noOptions,
                 failed |-> ~listed \/ (job # null /\ ~removed),
                 result |-> outcome.result, requests |-> outcome.requests,
                 jobs |-> {}])

\* removeRecurringJob(name) up to its second await: the listing settles and
\* find has run; the call ends here when the listing failed or nothing was
\* found, and otherwise waits for removeRepeatableByKey(job.key)
RemoveLookup(name, job, listed) ==
  LET outcome == removeRecurringJob(repeatables, name, job, listed, TRUE)
      waits == listed /\ job # null
  IN  /\ job \in Found(repeatables, name)
      /\ UNCHANGED repeatables
      /\ Called([op |-> "remove", name |-> name, pattern |-> "",
                 options |-> noOptions, failed |-> ~listed,
                 result |-> IF waits THEN "pending" ELSE outcome.result,
                 requests |-> outcome.requests,
                 jobs |-> IF waits THEN {job} ELSE {}])

\* the awaited removeRepeatableByKey of call i settles: the backend deletes
\* the entry of that key if it still has one and the call returns true, or
\* the request fails and the error is rethrown
RemoveSettle(i, removed) ==
  /\ ~exited
  /\ i \in 1..Len(callLog)
  /\ callLog[i].op = "remove"
  /\ callLog[i].result = "pending"
  /\ LET job == CHOOSE found \in callLog[i].jobs : TRUE
         outcome == removeRecurringJob(repeatables, callLog[i].name, job, TRUE, removed)
     IN  /\ repeatables' = outcome.repeatables
         /\ callLog' = [callLog EXCEPT ![i].result = outcome.result,
                                        ![i].failed = ~removed]
  /\ UNCHANGED << monitor, exited >>

\* getRecurringJobs()
GetRecurringJobs(listed) ==
  LET outcome == getRecurringJobs(repeatables, listed)
  IN  /\ UNCHANGED repeatables
      /\ Called([op |-> "list", name |-> "", pattern |-> "", options |-> noOptions,
                 failed |-> ~listed,
                 result |-> outcome.result, requests |-> outcome.requests,
                 jobs |-> outcome.jobs])

\* process.on('SIGINT') and process.on('SIGTERM'): the handler logs and calls
\* process.exit(0), which ends the process with its timers and pending awaits
OnSignal(signal) ==
  /\ ~exited
  /\ signal \in {"SIGINT", "SIGTERM"}
  /\ exited' = TRUE
  /\ UNCHANGED << monitor, repeatables, callLog >>

\* ------------------------------------------------------------------------
\* Specifications
\* ------------------------------------------------------------------------
CompletedJobs == {null, jobFast, jobSlow, jobEpoch, jobUnprocessed}

FailedInputs == {<<jobFast, errBoom>>, <<null, null>>}

AnyError == {null, errBoom}

\* a completion with and without the job argument
EitherJob == {null, jobFast}

AnyAnswer == Answers \cup {queryFailed}

\* startup followed by every interleaving of event callbacks and alert
\* passes; the snapshots are refreshed by the initial status queries
Next ==
  \/ \E queueName \in QueueSet :
       used.events < MaxEvents /\ OnWaiting(queueName, jobUnprocessed)
  \/ \E queueName \in QueueSet :
       used.events < MaxEvents /\ OnActive(queueName, null)
  \/ \E queueName \in QueueSet, job \in EitherJob :
       used.events < MaxEvents /\ OnCompleted(queueName, job)
  \/ \E queueName \in QueueSet, input \in FailedInputs :
       used.events < MaxEvents /\ OnFailed(queueName, input[1], input[2])
  \/ \E queueName \in QueueSet :
       used.events < MaxEvents /\ OnStalled(queueName, jobFast)
  \/ \E queueName \in QueueSet, err \in AnyError :
       used.events < MaxEvents /\ OnError(queueName, err)
  \/ \E answer \in {answerBad, queryFailed} : InitialStatus(answer)
  \/ used.alertTicks < MaxAlertTicks /\ AlertTick

Spec == Init /\ [][Next]_vars

\* the performance aggregator: startup followed by every interleaving of
\* completed, failed and waiting events with the rollup timer
NextPerf ==
  \/ \E queueName \in QueueSet :
       used.events < MaxEvents /\ OnWaiting(queueName, jobUnprocessed)
  \/ \E queueName \in QueueSet, job \in CompletedJobs :
       used.events < MaxEvents /\ OnCompleted(queueName, job)
  \/ \E queueName \in QueueSet, input \in FailedInputs :
       used.events < MaxEvents /\ OnFailed(queueName, input[1], input[2])
  \/ InitialStatus(answerEdge)
  \/ used.rollups < MaxRollups /\ RollupTick

SpecPerf == Init /\ [][NextPerf]_vars

\* long runs: after startup the backend delivers BurstLen failed jobs of the
\* first queue, which fills both logs past their capacities; then every
\* interleaving of further events, alert passes and clears
Bursting == Serving /\ used.events < BurstLen

Burst == Serving /\ used.events >= BurstLen

NextBurst ==
  \/ \E answer \in AnyAnswer : InitialStatus(answer)
  \/ Bursting /\ OnFailed(queueNames[1], jobFast, errBoom)
  \/ \E queueName \in QueueSet :
       Burst /\ used.events < BurstLen + BurstEvents /\ OnWaiting(queueName, jobUnprocessed)
  \/ \E queueName \in QueueSet :
       Burst /\ used.events < BurstLen + BurstEvents /\ OnActive(queueName, null)
  \/ \E queueName \in QueueSet, job \in EitherJob :
       Burst /\ used.events < BurstLen + BurstEvents /\ OnCompleted(queueName, job)
  \/ \E queueName \in QueueSet, input \in FailedInputs :
       Burst /\ used.events < BurstLen + BurstEvents
         /\ OnFailed(queueName, input[1], input[2])
  \/ \E queueName \in QueueSet :
       Burst /\ used.events < BurstLen + BurstEvents /\ OnStalled(queueName, jobFast)
  \/ \E queueName \in QueueSet, err \in AnyError :
       Burst /\ used.events < BurstLen + BurstEvents /\ OnError(queueName, err)
  \/ Burst /\ used.alertTicks < MaxAlertTicks /\ AlertTick
  \/ Burst /\ ClearAlerts

SpecBurst == Init /\ [][NextBurst]_vars

\* the status refresher: startup, then the 30 s timer starts passes over
\* queueNames whose awaited queries and closes settle in any order with
\* event callbacks
NextRefresh ==
  \/ \E queueName \in QueueSet :
       used.events < MaxEvents /\ OnWaiting(queueName, jobUnprocessed)
  \/ \E queueName \in QueueSet :
       used.events < MaxEvents /\ OnFailed(queueName, jobFast, errBoom)
  \/ \E answer \in AnyAnswer : InitialStatus(answer)
  \/ used.cycles < MaxCycles /\ RefreshTick
  \/ \E i \in 1..Len(cycles), answer \in {answerBad, queryFailed} : CycleStatus(i, answer)
  \/ \E i \in 1..Len(cycles), closed \in BOOLEAN : CycleClose(i, closed)

SpecRefresh == Init /\ [][NextRefresh]_vars

\* the whole monitor: a startup whose queries succeed, then at most MaxSteps
\* event callbacks and timer firings of any kind, the refresh passes they
\* start and whose closes succeed, and clears (one at a time: a second clear
\* in a row finds the state the first one left)
Steps == used.events + used.cycles + used.alertTicks + used.rollups

NextAll ==
  \/ \E queueName \in QueueSet :
       Serving /\ Steps < MaxSteps /\ OnWaiting(queueName, jobUnprocessed)
  \/ \E queueName \in QueueSet :
       Serving /\ Steps < MaxSteps /\ OnActive(queueName, jobUnprocessed)
  \/ \E queueName \in QueueSet :
       Serving /\ Steps < MaxSteps /\ OnCompleted(queueName, jobSlow)
  \/ \E queueName \in QueueSet :
       Serving /\ Steps < MaxSteps /\ OnFailed(queueName, jobFast, errBoom)
  \/ \E queueName \in QueueSet :
       Serving /\ Steps < MaxSteps /\ OnStalled(queueName, jobFast)
  \/ \E queueName \in QueueSet :
       Serving /\ Steps < MaxSteps /\ OnError(queueName, errBoom)
  \/ InitialStatus(answerBad)
  \/ Steps < MaxSteps /\ RefreshTick
  \/ \E i \in 1..Len(cycles), answer \in {answerBad, queryFailed} : CycleStatus(i, answer)
  \/ \E i \in 1..Len(cycles) : CycleClose(i, TRUE)
  \/ Steps < MaxSteps /\ RollupTick
  \/ Steps < MaxSteps /\ AlertTick
  \/ used.clears = 0 /\ ClearAlerts

SpecAll == Init /\ [][NextAll]_vars

\* the status refresher with a backend that may leave the queries of the
\* first queue unanswered: timers fire, closes succeed and the queries of
\* every other queue are answered, while nothing obliges the answer for the
\* first queue to arrive
Unresponsive == queueNames[1]

NextStall ==
  \/ \E queueName \in QueueSet :
       used.events < MaxEvents /\ OnWaiting(queueName, jobUnprocessed)
  \/ \E answer \in AnyAnswer : InitialStatus(answer)
  \/ used.cycles < MaxCycles /\ RefreshTick
  \/ \E i \in 1..Len(cycles), answer \in AnyAnswer : CycleStatus(i, answer)
  \/ \E i \in 1..Len(cycles) : CycleClose(i, TRUE)

SpecStall ==
  /\ Init
  /\ [][NextStall]_vars
  /\ WF_vars(\E answer \in AnyAnswer : InitialStatus(answer))
  /\ WF_vars(used.cycles < MaxCycles /\ RefreshTick)
  /\ WF_vars(\E i \in 1..Len(cycles), answer \in AnyAnswer :
               queueNames[cycles[i].idx] # Unresponsive /\ CycleStatus(i, answer))
  /\ WF_vars(\E i \in 1..Len(cycles) : CycleClose(i, TRUE))

\* the recurring job registry: after setupScheduler, at most MaxCalls calls
\* of add, remove and list, one after the other, with a backend that answers
\* or fails each request
NextRegistry ==
  \/ \E name \in JobNames, cronPattern \in Patterns, options \in OptionsSet, up \in BOOLEAN :
       Len(callLog) < MaxCalls /\ AddCustomRecurringJob(name, cronPattern, options, up)
  \/ \E name \in JobNames, job \in repeatables \cup {null}, listed \in BOOLEAN,
         removed \in BOOLEAN :
       Len(callLog) < MaxCalls /\ RemoveRecurringJob(name, job, listed, removed)
  \/ \E listed \in BOOLEAN : Len(callLog) < MaxCalls /\ GetRecurringJobs(listed)

SpecRegistry == Init /\ [][NextRegistry]_vars

\* teardown: at most MaxSteps events and firings of the three timers of the
\* monitor, the refresh passes they start, and a termination signal that may
\* arrive at any moment
NextShutdown ==
  \/ \E queueName \in QueueSet :
       Steps < MaxSteps /\ OnWaiting(queueName, jobUnprocessed)
  \/ \E queueName \in QueueSet :
       Steps < MaxSteps /\ OnFailed(queueName, jobFast, errBoom)
  \/ InitialStatus(answerBad)
  \/ Steps < MaxSteps /\ RefreshTick
  \/ \E i \in 1..Len(cycles) : CycleStatus(i, answerEdge)
  \/ \E i \in 1..Len(cycles) : CycleClose(i, TRUE)
  \/ Steps < MaxSteps /\ RollupTick
  \/ Steps < MaxSteps /\ AlertTick
  \/ \E signal \in {"SIGINT", "SIGTERM"} : OnSignal(signal)

SpecShutdown == Init /\ [][NextShutdown]_vars

\* a persisting condition: both queues stay above the thresholds and paused,
\* so that each of up to MaxPersist alert passes appends six alerts, next to
\* error events of the queues and clears
NextPersist ==
  \/ InitialStatus(answerBad)
  \/ \E queueName \in QueueSet :
       Serving /\ used.events < BurstEvents /\ OnError(queueName, errBoom)
  \/ used.alertTicks < MaxPersist /\ AlertTick
  \/ used.clears = 0 /\ ClearAlerts

SpecPersist == Init /\ [][NextPersist]_vars

\* what the status queries of the pass with this id return when the backend's
\* counts grow from tick to tick and a query reads them as its pass starts
CountsAt(id) ==
  [waiting |-> id, active |-> 0, completed |-> id, failed |-> 0, delayed |-> 0,
   paused |-> FALSE]

\* overlapping passes: the 30 s timer fires up to MaxOverlap times whether
\* or not the queries of an earlier pass have been answered, and the answers
\* arrive in any order
NextOverlap ==
  \/ \E queueName \in QueueSet :
       used.events < MaxEvents /\ OnWaiting(queueName, jobUnprocessed)
  \/ InitialStatus(CountsAt(0))
  \/ used.cycles < MaxOverlap /\ RefreshTick
  \/ \E i \in 1..Len(cycles) : CycleStatus(i, CountsAt(cycles[i].id))
  \/ \E i \in 1..Len(cycles) : CycleClose(i, TRUE)

SpecOverlap == Init /\ [][NextOverlap]_vars

\* the registry under concurrent callers: a remove may be started while the
\* removal request of another call is still unanswered
NextRace ==
  \/ \E name \in JobNames, cronPattern \in ValidPatterns :
       Len(callLog) < MaxCalls /\ AddCustomRecurringJob(name, cronPattern, noOptions, TRUE)
  \/ \E name \in JobNames, job \in repeatables \cup {null}, listed \in BOOLEAN :
       Len(callLog) < MaxCalls /\ RemoveLookup(name, job, listed)
  \/ \E i \in 1..Len(callLog), removed \in BOOLEAN : RemoveSettle(i, removed)
  \/ Len(callLog) < MaxCalls /\ GetRecurringJobs(TRUE)

SpecRace == Init /\ [][NextRace]_vars

\* ------------------------------------------------------------------------
\* Properties
\* ------------------------------------------------------------------------
\* the event log of a queue, empty when the snapshot or its events key is absent
EventsOf(qs, queueName) ==
  IF HasKey(qs, queueName) /\ "events" \in DOMAIN Get(qs, queueName)
  THEN Get(qs, queueName).events
  ELSE <<>>

SnapshotOf(qs, queueName) == IF HasKey(qs, queueName) THEN Get(qs, queueName) ELSE null

\* the metric of a queue, read as all zeros before its first completed or failed event
MetricOf(perf, queueName) ==
  IF HasKey(perf, queueName) THEN Get(perf, queueName) ELSE newMetrics

Timing(perf, queueName) ==
  << MetricOf(perf, queueName).totalProcessingTime,
     MetricOf(perf, queueName).jobCount,
     MetricOf(perf, queueName).avgProcessingTime >>

CountFields == {"waiting", "active", "completed", "failed", "delayed"}

\* C1: a refresh of q leaves q's event log as it was (events ingested before
\* and during the backend query included) and leaves the snapshots of all
\* other queues unchanged.
C1_RefreshKeepsEventLog ==
  [][\A i \in 1..Len(cycles), answer \in AnyAnswer :
       CycleStatus(i, answer) =>
         LET queueName == queueNames[cycles[i].idx]
         IN  /\ EventsOf(queues', queueName) = EventsOf(queues, queueName)
             /\ \A other \in QueueSet \ {queueName} :
                  SnapshotOf(queues', other) = SnapshotOf(queues, other)]_vars

\* C2: in every reachable state each queue's event log holds at most 100
\* entries and the alert log holds at most 50 entries.
C2_LogsWithinCapacity ==
  /\ \A queueName \in QueueSet : Len(EventsOf(queues, queueName)) <= EventCapacity
  /\ Len(alerts) <= AlertCapacity

\* both logs are full after more entries than their capacities were appended,
\* and an alert pass has run
C2_Witness ==
  /\ \E queueName \in QueueSet :
       /\ Len(ingested[queueName]) > EventCapacity
       /\ Len(EventsOf(queues, queueName)) = EventCapacity
  /\ Len(created) > AlertCapacity
  /\ Len(alerts) = AlertCapacity
  /\ used.alertTicks > 0

\* C3: after n events were ingested for a queue, its event log holds the most
\* recent min(n, 100) of them in arrival order.
C3_LogHoldsMostRecent ==
  \A queueName \in QueueSet :
    EventsOf(queues, queueName) = SliceLast(ingested[queueName], EventCapacity)

\* C4: the alert log holds, unmodified and in creation order, the most recent
\* min(n, 50) of the n alerts created since the last clearAlerts, so it only
\* changes by an append at the tail, an eviction of the oldest or a bulk clear.
C4_AlertLogHoldsMostRecent == alerts = SliceLast(created, AlertCapacity)

\* more than 50 alerts were created since the last clear, by failed events,
\* then by a periodic pass, then by a stalled event
C4_Witness ==
  /\ Len(created) > AlertCapacity
  /\ \E i \in 1..Len(alerts) : alerts[i].event = "failed"
  /\ \E i \in 1..Len(alerts) : alerts[i].event = "queue-paused"
  /\ \E i \in 2..Len(alerts) :
       alerts[i].event = "stalled" /\ alerts[i - 1].event = "high-failure-rate"

\* C5: after N failed events for a queue its failedCount is N, and no failed
\* event changes totalProcessingTime, jobCount or avgProcessingTime.
C5_FailedCountOnly ==
  /\ [](\A queueName \in QueueSet :
          /\ failedSeen[queueName] > 0 => HasKey(performance, queueName)
          /\ MetricOf(performance, queueName).failed = failedSeen[queueName])
  /\ [][\A queueName \in QueueSet, input \in FailedInputs :
          OnFailed(queueName, input[1], input[2]) =>
            Timing(performance', queueName) = Timing(performance, queueName)]_vars

\* failed events were ingested for a queue that also has timed completions,
\* and a rollup has run
C5_Witness ==
  \E queueName \in QueueSet :
    /\ failedSeen[queueName] > 0
    /\ MetricOf(performance, queueName).jobCount > 0
    /\ HasKey(performance, "system")

\* C6: after completed events carrying enqueuedAt t0 and processedAt t1 >= t0
\* (0 included), avgProcessingTime is the arithmetic mean of t1 - t0 over them.
C6_AvgIsMeanOfTimes ==
  \A queueName \in QueueSet :
    procTimes[queueName] # <<>> =>
      /\ HasKey(performance, queueName)
      /\ Get(performance, queueName).avgProcessingTime =
           Rat(SumSeq(procTimes[queueName]), Len(procTimes[queueName]))

\* the severity table of the specification
Classify(event, hasError) ==
  CASE event = "failed" /\ hasError -> "error"
    [] event = "error" -> "critical"
    [] OTHER -> "warning"

\* C7: the severity of every alert is the function of (event, error present)
\* given by the table: failed with an error is error, error is critical,
\* everything else is warning; no other severity occurs.
C7_SeverityIsTotalFunction ==
  \A i \in 1..Len(alerts) :
    /\ alerts[i].severity \in {"warning", "error", "critical"}
    /\ alerts[i].severity = Classify(alerts[i].event, "error" \in DOMAIN alerts[i])

\* the log holds a failed alert without an error, a backend error alert
\* without an error object and a periodic alert
C7_Witness ==
  /\ \E i \in 1..Len(alerts) : alerts[i].event = "failed" /\ "error" \notin DOMAIN alerts[i]
  /\ \E i \in 1..Len(alerts) : alerts[i].event = "error" /\ "error" \notin DOMAIN alerts[i]
  /\ \E i \in 1..Len(alerts) : alerts[i].event = "high-failure-rate"

\* the failed count a snapshot contributes to the total
FailedCount(status) == IF "failed" \in DOMAIN status THEN status.failed ELSE 0

\* C8: the health status is critical if the alert log holds a critical alert,
\* else warning if the failed counts of the snapshots sum to more than 10,
\* else healthy.
C8_HealthStatusRule ==
  Serving =>
    getSystemHealth.status =
      IF \E i \in 1..Len(alerts) : alerts[i].severity = "critical" THEN "critical"
      ELSE IF SumSeq([i \in 1..Len(queues) |-> FailedCount(queues[i].value)])
                > HealthFailedThreshold
           THEN "warning"
           ELSE "healthy"

\* C9: every snapshot in the store has defined non-negative waiting, active,
\* completed, failed and delayed counts.
C9_CountsDefined ==
  \A i \in 1..Len(queues) : \A f \in CountFields : Field(queues[i].value, f) >= 0

\* C10: ingesting an event never raises an error, whatever the event kind and
\* whether or not a job and an error come with it.
C10_IngestNeverRaises == raised # "ingest"

AlertingEvents == {"failed", "stalled", "error"}

\* C11: each ingested failed, stalled or error event appends exactly one alert
\* of that queue and event to the alert log (the oldest entry leaving when the
\* log is full); each ingested waiting, active or completed event appends none.
C11_AlertPerAlertingEvent ==
  [][\A queueName \in QueueSet :
       Len(ingested'[queueName]) > Len(ingested[queueName]) =>
         LET eventData == ingested'[queueName][Len(ingested'[queueName])]
         IN  IF eventData.event \in AlertingEvents
             THEN /\ alerts' # <<>>
                  /\ LET alert == alerts'[Len(alerts')]
                     IN  /\ alert.queueName = queueName
                         /\ alert.event = eventData.event
                         /\ alerts' = SliceLast(Append(alerts, alert), AlertCapacity)
             ELSE alerts' = alerts]_vars

\* a backend error event of the second queue was ingested into a full alert
\* log, so its alert evicted the oldest one
C11_Witness ==
  /\ Len(created) > AlertCapacity + 1
  /\ Len(alerts) = AlertCapacity
  /\ alerts[Len(alerts)].event = "error"
  /\ alerts[Len(alerts)].queueName = queueNames[2]
  /\ ingested[queueNames[2]] # <<>>

\* the raw entry of performance under a name, null when there is none
EntryOf(perf, name) == IF HasKey(perf, name) THEN Get(perf, name) ELSE null

\* C12: the PerformanceMetric entry of a queue changes only in a step that
\* ingests a completed or failed event for that same queue; all other events,
\* refreshes, alert passes, rollups and clears leave every per-queue entry as
\* it was.
C12_MetricsChangeOnlyOnOwnEvents ==
  [][\A queueName \in QueueSet :
       EntryOf(performance', queueName) # EntryOf(performance, queueName) =>
         /\ Len(ingested'[queueName]) > Len(ingested[queueName])
         /\ ingested'[queueName][Len(ingested'[queueName])].event
              \in {"completed", "failed"}]_vars

\* the first queue has a metric, the second queue has ingested events but no
\* metric, and a rollup has written the system entry next to them
C12_Witness ==
  /\ HasKey(performance, queueNames[1])
  /\ ~HasKey(performance, queueNames[2])
  /\ ingested[queueNames[2]] # <<>>
  /\ HasKey(performance, "system")

\* the messages of the high-failure-rate alerts of the health pass
HealthMessages == {"High failure rate: " \o ToString(n) \o " failed jobs" : n \in 0..200}

\* an alert appended by the health pass (the performance pass also raises
\* high-failure-rate, with a percentage as its message)
IsHealthAlert(alert) ==
  \/ alert.event \in {"queue-backlog", "queue-paused"}
  \/ alert.event = "high-failure-rate" /\ Field(alert, "error") \in HealthMessages

\* how many alerts of a queue and event a sequence of alerts holds
CountOf(log, queueName, event) ==
  Cardinality({i \in 1..Len(log) : log[i].queueName = queueName /\ log[i].event = event})

IsPerformanceAlert(alert) ==
  /\ alert.event \in {"slow-processing", "high-failure-rate"}
  /\ ~IsHealthAlert(alert)

\* C14: a periodic pass raises performance alerts per queue only: for a queue
\* with completed + failed > 0, one slow-processing alert iff its average is
\* above 30000 and one high-failure-rate alert iff failed / (completed +
\* failed) > 0.2 (exactly 0.2 raises none); never for an entry without jobs or
\* under a name that is not a queue.
C14_PerformancePassRule ==
  [][used'.alertTicks > used.alertTicks =>
       LET appended == SliceLast(alerts', Len(created') - Len(created))
           raisedNow == SelectSeq(appended, IsPerformanceAlert)
       IN  /\ \A i \in 1..Len(raisedNow) : raisedNow[i].queueName \in QueueSet
           /\ \A queueName \in QueueSet :
                LET metrics == MetricOf(performance, queueName)
                    totalJobs == metrics.completed + metrics.failed
                IN  /\ CountOf(raisedNow, queueName, "slow-processing")
                         = IF totalJobs > 0
                               /\ RatGreater(metrics.avgProcessingTime, SlowThreshold)
                           THEN 1 ELSE 0
                    /\ CountOf(raisedNow, queueName, "high-failure-rate")
                         = IF totalJobs > 0 /\ 5 * metrics.failed > totalJobs
                           THEN 1 ELSE 0]_vars

\* the per-queue entries of performance
QueueMetrics(perf) == SelectSeq(perf, LAMBDA entry : entry.key \in QueueSet)

\* C15: after every rollup tick, the first and every later one, totalJobs of
\* the system entry is the sum of completed + failed over the per-queue
\* metrics.
C15_TotalJobsIsSum ==
  [][used'.rollups > used.rollups =>
       /\ HasKey(performance', "system")
       /\ Get(performance', "system").totalJobs =
            SumSeq([i \in 1..Len(QueueMetrics(performance)) |->
                      QueueMetrics(performance)[i].value.completed
                        + QueueMetrics(performance)[i].value.failed])]_vars

\* the arithmetic mean of the per-queue averages, 0 when there is no metric
MeanOfAverages(perf) ==
  LET metrics == QueueMetrics(perf)
      sum == SumAvg(Values(metrics))
  IN  IF metrics = <<>> THEN Rat(0, 1) ELSE Rat(sum.num, sum.den * Len(metrics))

\* an entry without its timestamp
Untimed(entry) == [f \in DOMAIN entry \ {"timestamp"} |-> entry[f]]

\* C16: after every rollup tick the system average is the unweighted mean of
\* the per-queue averages (0 when there is none), and a second rollup right
\* after it gives the same system entry apart from the timestamp.
C16_SystemAvgIsMean ==
  [][used'.rollups > used.rollups =>
       /\ HasKey(performance', "system")
       /\ Get(performance', "system").avgProcessingTime = MeanOfAverages(performance)
       /\ Untimed(Get(SystemRollup(performance', now' + 1), "system"))
            = Untimed(Get(performance', "system"))]_vars

\* a refresh has stored a failed count above 10 for the queue
FailedAbove(queueName) ==
  Field(SnapshotOf(queues, queueName), "failed") > FailedThreshold

\* C17: while a snapshot holds a refreshed failed count above 10, the next
\* health pass appends a high-failure-rate alert for that queue, and the
\* health status is warning as long as the log holds no critical alert.
C17_HighFailedIsReported ==
  /\ [][used'.alertTicks > used.alertTicks =>
          \A queueName \in QueueSet :
            FailedAbove(queueName) =>
              \E i \in 1..Len(alerts') :
                /\ i > Len(alerts') - (Len(created') - Len(created))
                /\ alerts'[i].queueName = queueName
                /\ alerts'[i].event = "high-failure-rate"
                /\ IsHealthAlert(alerts'[i])]_vars
  /\ []((/\ Serving
         /\ \E queueName \in QueueSet : FailedAbove(queueName)
         /\ CountCritical(alerts) = 0)
          => getSystemHealth.status = "warning")

\* the snapshot of the queue carries the counts and the paused flag of the answer
Carries(qs, queueName, answer) ==
  /\ HasKey(qs, queueName)
  /\ \A f \in CountFields \cup {"paused"} :
       f \in DOMAIN Get(qs, queueName) /\ Get(qs, queueName)[f] = answer[f]

\* C18: when a refresh of q completes successfully, at startup or in a
\* periodic pass, q's snapshot counts and paused flag are the values the
\* backend returned, whatever was ingested for q before.
C18_RefreshStoresBackendCounts ==
  [][\A answer \in Answers :
       /\ InitialStatus(answer) => Carries(queues', queueNames[setupIdx], answer)
       /\ \A i \in 1..Len(cycles) :
            CycleStatus(i, answer) =>
              Carries(queues', queueNames[cycles[i].idx], answer)]_vars

\* a periodic pass has overwritten the snapshot of a queue that had ingested
\* events with counts above the thresholds
C18_Witness ==
  /\ used.cycles > 0
  /\ ingested[queueNames[1]] # <<>>
  /\ Carries(queues, queueNames[1], answerBad)
  /\ Get(queues, queueNames[1]).lastUpdated > 1

\* the pass with this id is in flight at this queue index
PassAt(cs, id, idx) == \E j \in 1..Len(cs) : cs[j].id = id /\ cs[j].idx = idx

\* C19: within one periodic pass, a failure of a backend call made for one
\* queue (the status queries or the close) does not end the pass: it stays
\* on its queue after the status call and moves to the next queue after the
\* close.
C19_FailureDoesNotAbortPass ==
  [][\A i \in 1..Len(cycles) :
       /\ \A answer \in AnyAnswer :
            CycleStatus(i, answer) => PassAt(cycles', cycles[i].id, cycles[i].idx)
       /\ \A closed \in BOOLEAN :
            CycleClose(i, closed) /\ cycles[i].idx < Len(queueNames) =>
              PassAt(cycles', cycles[i].id, cycles[i].idx + 1)]_vars

\* the status query of the pass for this queue has settled
Refreshed(id, queueName) ==
  \E j \in 1..Len(cycles) :
    /\ cycles[j].id = id
    /\ cycles[j].idx = IndexOf(queueName)
    /\ cycles[j].stage = "close"

\* C20: when the backend never answers the refresh query of one queue, every
\* periodic pass that starts still refreshes every other queue.
C20_OthersStillRefreshed ==
  \A id \in 1..MaxCycles : \A queueName \in QueueSet \ {Unresponsive} :
    PassAt(cycles, id, 1) ~> Refreshed(id, queueName)

\* C21: when the backend queries of a refresh of q fail, at startup or in a
\* periodic pass, the refresh returns normally and every snapshot, q's
\* included (counts, paused flag, lastUpdated and event log), is what it was
\* before the refresh.
C21_FailedRefreshKeepsSnapshot ==
  [][/\ InitialStatus(queryFailed) => queues' = queues /\ raised' = "none"
     /\ \A i \in 1..Len(cycles) :
          CycleStatus(i, queryFailed) => queues' = queues /\ raised' = "none"]_vars

\* the query of the only periodic pass has failed for a queue whose snapshot
\* holds the counts of the startup refresh and events ingested since
C21_Witness ==
  /\ used.cycles = 1
  /\ Len(cycles) = 1
  /\ cycles[1].stage = "close"
  /\ raised = "none"
  /\ LET queueName == queueNames[cycles[1].idx]
     IN  /\ HasKey(queues, queueName)
         /\ "lastUpdated" \in DOMAIN Get(queues, queueName)
         /\ Get(queues, queueName).lastUpdated < now
         /\ EventsOf(queues, queueName) # <<>>

\* the step appends one alert of severity critical to the alert log
CriticalAppended ==
  /\ alerts' # <<>>
  /\ LET alert == alerts'[Len(alerts')]
     IN  /\ alert.severity = "critical"
         /\ alerts' = SliceLast(Append(alerts, alert), AlertCapacity)

\* C22: every connection or query failure of the backend, whether reported
\* by the error event of a queue or met by the queries of a snapshot
\* refresh, appends an alert of severity critical to the alert log.
C22_BackendFailureRaisesCritical ==
  [][/\ \A queueName \in QueueSet : OnError(queueName, errBoom) => CriticalAppended
     /\ \A i \in 1..Len(cycles) : CycleStatus(i, queryFailed) => CriticalAppended]_vars

\* C23: clearAlerts leaves the alert log empty and leaves every queue
\* snapshot (counts, paused flag, event log) and every performance metric
\* exactly as it was.
C23_ClearOnlyEmptiesAlerts ==
  [][ClearAlerts =>
       alerts' = <<>> /\ queues' = queues /\ performance' = performance]_vars

\* the alert of a failed job has just been cleared while the snapshot and
\* the metrics of its queue hold what the failed event left there
C23_Witness ==
  /\ used.clears = 1
  /\ Steps = 1
  /\ failedSeen[queueNames[1]] = 1
  /\ alerts = <<>>
  /\ HasKey(performance, queueNames[1])
  /\ EventsOf(queues, queueNames[1]) # <<>>

\* C24: clearAlerts is idempotent: called twice in a row, from any state,
\* the alert log is empty after the first call and after the second, and
\* neither call raises.
C24_ClearIsIdempotent ==
  /\ used.clears > 0 => alerts = <<>> /\ raised = "none"
  /\ clearAlerts(clearAlerts(alerts)) = clearAlerts(alerts)

\* two clears in a row after the alert log had been filled past its capacity
C24_Witness ==
  /\ used.clears = 2
  /\ used.events > AlertCapacity
  /\ alerts = <<>>

\* the calls of the registry made so far
Calls == 1..Len(callLog)

\* the name has an entry in the set
Registered(set, name) == \E job \in set : job.name = name

\* the backend's set when call i returned
After(i) == IF i < Len(callLog) THEN callLog[i + 1].before ELSE repeatables

\* call i is an add(name, data, cronPattern) that succeeded
AddedAt(i, name, cronPattern) ==
  /\ callLog[i].op = "add"
  /\ callLog[i].name = name
  /\ callLog[i].pattern = cronPattern
  /\ callLog[i].options = noOptions
  /\ callLog[i].result = "job"

\* C25: after add(name, data, cronPattern) succeeds, every list() made
\* before any remove of that name returns an entry with that name and that
\* pattern; and what list() returns is the backend's set of repeatable jobs
\* at the time of the call.
C25_ListShowsAddedAndBackendSet ==
  /\ \A i \in Calls, j \in Calls, name \in JobNames, cronPattern \in Patterns :
       ( /\ i < j
         /\ AddedAt(i, name, cronPattern)
         /\ callLog[j].op = "list"
         /\ callLog[j].result = "jobs"
         /\ \A k \in (i + 1)..(j - 1) :
              ~(callLog[k].op = "remove" /\ callLog[k].name = name) )
       => \E job \in callLog[j].jobs : job.name = name /\ job.pattern = cronPattern
  /\ \A j \in Calls :
       callLog[j].op = "list" /\ callLog[j].result = "jobs"
       => /\ {<< job.name, job.pattern, job.key >> : job \in callLog[j].jobs}
               = {<< job.name, job.pattern, job.key >> : job \in callLog[j].before}
          /\ callLog[j].requests = << "getRepeatableJobs" >>

\* a schedule under a new name was added, another call was made, and the
\* list that followed shows it next to the schedules of the startup
C25_Witness ==
  /\ Len(callLog) = 3
  /\ AddedAt(1, "nightly", "0 2 * * *")
  /\ callLog[2].op = "add" /\ callLog[2].result = "job"
  /\ callLog[3].op = "list"
  /\ Repeatable("nightly", "0 2 * * *") \in callLog[3].jobs
  /\ Cardinality(callLog[3].jobs) > Cardinality(defaultRepeatables) + 1

\* C26: for a registered name, two successive remove(name) calls that the
\* backend serves, with no add in between, return true on the first call
\* and false on the second.
C26_SecondRemoveReturnsFalse ==
  \A i \in Calls, j \in Calls :
    ( /\ i < j
      /\ callLog[i].op = "remove" /\ callLog[j].op = "remove"
      /\ callLog[i].name = callLog[j].name
      /\ Registered(callLog[i].before, callLog[i].name)
      /\ ~callLog[i].failed /\ ~callLog[j].failed
      /\ \A k \in (i + 1)..(j - 1) :
           callLog[k].op = "list" )
    => callLog[i].result = "true" /\ callLog[j].result = "false"

\* C27: a schedule is registered or unregistered by name: after
\* remove(name) returns true no entry of that name is left in the backend's
\* set, whatever adds were made before.
C27_RemovedNameIsUnregistered ==
  \A i \in Calls :
    callLog[i].op = "remove" /\ callLog[i].result = "true"
    => ~Registered(After(i), callLog[i].name)

\* C28: remove(name) for a name with no registered entry issues no removal
\* to the backend, leaves the backend's set unchanged and, when the backend
\* answers the lookup, returns false without raising.
C28_RemoveOfUnknownName ==
  \A i \in Calls :
    callLog[i].op = "remove" /\ ~Registered(callLog[i].before, callLog[i].name)
    => /\ callLog[i].requests = << "getRepeatableJobs" >>
       /\ After(i) = callLog[i].before
       /\ ~callLog[i].failed => callLog[i].result = "false"

\* a name that was never registered, and a name removed by the call before,
\* have both been looked up and not found
C28_Witness ==
  /\ Len(callLog) = 3
  /\ callLog[1].op = "remove" /\ callLog[1].name = "nightly"
  /\ callLog[1].result = "false"
  /\ callLog[2].op = "remove" /\ callLog[2].name = "daily-cleanup"
  /\ callLog[2].result = "true"
  /\ callLog[3].op = "remove" /\ callLog[3].name = "daily-cleanup"
  /\ callLog[3].result = "false"
  /\ repeatables = {Repeatable("hourly-health-check", "0 * * * *")}

\* C29: when the backend rejects an add (a cron pattern it cannot parse, or
\* no connection) or fails a request of a remove, the call fails with the
\* backend's error, no request is issued a second time, and the set of
\* registered schedules is what it was before the call.
C29_BackendErrorsSurfaceUnretried ==
  \A i \in Calls :
    callLog[i].op \in {"add", "remove"} /\ callLog[i].failed
    => /\ callLog[i].result = "error"
       /\ After(i) = callLog[i].before
       /\ \A m \in DOMAIN callLog[i].requests, n \in DOMAIN callLog[i].requests :
            callLog[i].requests[m] = callLog[i].requests[n] => m = n

\* an add with a pattern the backend cannot parse, an add of a valid pattern
\* without a connection and a remove whose removal request failed have all
\* been rejected, and the schedules are those of the startup
C29_Witness ==
  /\ Len(callLog) = 3
  /\ callLog[1].op = "add" /\ callLog[1].pattern \notin ValidPatterns
  /\ callLog[1].result = "error"
  /\ callLog[2].op = "add" /\ callLog[2].pattern \in ValidPatterns
  /\ callLog[2].options = noOptions /\ callLog[2].result = "error"
  /\ callLog[3].op = "remove" /\ callLog[3].result = "error"
  /\ Len(callLog[3].requests) = 2
  /\ repeatables = defaultRepeatables

\* C30: once shutdown is requested no periodic task starts a new tick, and
\* a tick that is in flight at that moment (a refresh pass waiting for the
\* backend) runs to completion before the process terminates.
C30_ShutdownLetsTicksFinish ==
  /\ [](exited => cycles = <<>>)
  /\ [][exited => UNCHANGED << used, cycles >>]_vars

LookupNames == QueueSet \cup {"unknown-queue", "system", "constructor"}

\* C32: getQueueStatus(name) and getPerformanceMetrics(name) return null
\* exactly when no snapshot (respectively no metric) has been created for
\* that name, and the stored entry otherwise.
C32_LookupIsNullIffAbsent ==
  \A name \in LookupNames :
    /\ getQueueStatus(name) = (IF HasKey(queues, name) THEN Get(queues, name) ELSE null)
    /\ getPerformanceMetrics(name)
         = (IF HasKey(performance, name) THEN Get(performance, name) ELSE null)

\* limits a caller of GET /events may give
Limits == 0..2

\* the sequence is ordered by timestamp, newest first
NewestFirst(s) ==
  \A i \in 1..Len(s), j \in 1..Len(s) : i < j => s[i].timestamp >= s[j].timestamp

\* C33: getEvents(queueName?, limit) returns at most limit events for every
\* non-negative limit, 0 included: for a queue, the limit most recent
\* entries of its event log; without a queue name, the limit most recent
\* events of all queues, newest first.
C33_EventsWithinLimit ==
  \A limit \in Limits :
    /\ \A queueName \in QueueSet :
         /\ Len(getEvents(queueName, limit)) <= limit
         /\ getEvents(queueName, limit) = SliceLast(EventsOf(queues, queueName), limit)
    /\ LET events == getEvents("", limit)
           all == AllEvents(queues)
       IN  /\ Len(events) = (IF Len(all) < limit THEN Len(all) ELSE limit)
           /\ NewestFirst(events)
           /\ \A i \in 1..Len(events) : \E j \in 1..Len(all) : all[j] = events[i]
           /\ \A j \in 1..Len(all) :
                Len(events) = limit /\ limit > 0
                => all[j].timestamp <= events[1].timestamp

\* the alerts created by the step
NewAlerts ==
  IF Len(created') >= Len(created)
  THEN SubSeq(created', Len(created) + 1, Len(created'))
  ELSE <<>>

\* the notices due for a sequence of created alerts: one per critical alert
NoticesFor(new) ==
  LET critical == SelectSeq(new, LAMBDA alert : alert.severity = "critical")
  IN  [i \in 1..Len(critical) |->
         [queueName |-> critical[i].queueName, event |-> critical[i].event]]

\* C34: an out-of-band operator notice is emitted at the creation of an
\* alert if and only if the alert has severity critical, and the alert is
\* stored in the alert log as well.
C34_NoticeIffCritical ==
  [][/\ notices' = notices \o NoticesFor(NewAlerts)
     /\ SliceLast(alerts', Len(SliceLast(NewAlerts, AlertCapacity)))
          = SliceLast(NewAlerts, AlertCapacity)]_vars

\* a critical alert and an alert of another severity have been created and
\* stored, and the operator log holds the notice of the critical one only
C34_Witness ==
  /\ \E i \in 1..Len(alerts) : alerts[i].severity = "critical"
  /\ \E i \in 1..Len(alerts) : alerts[i].severity # "critical"
  /\ Len(notices) = 1
  /\ Len(created) = 2

\* the step ingests a completed event of the queue whose job has no
\* processedOn timestamp
CompletedUntimed(queueName) ==
  /\ Len(ingested'[queueName]) = Len(ingested[queueName]) + 1
  /\ LET eventData == ingested'[queueName][Len(ingested'[queueName])]
     IN  /\ eventData.event = "completed"
         /\ "jobId" \in DOMAIN eventData
         /\ eventData.jobId = jobUnprocessed.id

\* C35: for every queue metric, avgProcessingTime is totalProcessingTime /
\* jobCount when jobCount > 0 and 0 when jobCount = 0, and jobCount is at
\* most the completed count; a completed event whose job lacks a timestamp
\* adds one to the completed count and leaves the three timing fields alone.
C35_AverageIsDerived ==
  /\ [](\A queueName \in QueueSet :
          HasKey(performance, queueName)
          => LET metrics == Get(performance, queueName)
             IN  /\ metrics.avgProcessingTime
                      = (IF metrics.jobCount > 0
                         THEN Rat(metrics.totalProcessingTime, metrics.jobCount)
                         ELSE Rat(0, 1))
                 /\ metrics.jobCount <= metrics.completed)
  /\ [][\A queueName \in QueueSet :
          CompletedUntimed(queueName)
          => /\ MetricOf(performance', queueName).completed
                  = MetricOf(performance, queueName).completed + 1
             /\ Timing(performance', queueName) = Timing(performance, queueName)]_vars

\* a queue has completed jobs with and without timestamps: its average is
\* taken over fewer jobs than it has completed
C35_Witness ==
  \E queueName \in QueueSet :
    /\ HasKey(performance, queueName)
    /\ Get(performance, queueName).jobCount > 0
    /\ Get(performance, queueName).completed > Get(performance, queueName).jobCount
    /\ Get(performance, queueName).totalProcessingTime > 0
    /\ \E i \in 1..Len(ingested[queueName]) :
         /\ ingested[queueName][i].event = "completed"
         /\ "jobId" \in DOMAIN ingested[queueName][i]
         /\ ingested[queueName][i].jobId = jobUnprocessed.id

\* the step is the callback of a lifecycle event
Ingests == used'.events = used.events + 1

\* the counts and the paused flag a snapshot holds, absent ones left out
Refreshable(snapshot) ==
  [f \in (CountFields \cup {"paused"}) \cap DOMAIN snapshot |-> snapshot[f]]

\* totalWaiting, totalActive and totalFailed of getSystemHealth
Totals(qs) ==
  << SumField(Values(qs), "waiting"), SumField(Values(qs), "active"),
     SumField(Values(qs), "failed") >>

\* the counts and the paused flag of every snapshot are what they were, a
\* snapshot the step created holding none
CountsKept ==
  \A i \in 1..Len(queues') :
    Refreshable(queues'[i].value)
      = (IF HasKey(queues, queues'[i].key)
         THEN Refreshable(Get(queues, queues'[i].key))
         ELSE <<>>)

\* C36: ingesting an event of any kind changes neither the counts nor the
\* paused flag of any snapshot, so the totalWaiting, totalActive and
\* totalFailed of getSystemHealth change only when a refresh completes.
C36_IngestKeepsCountsAndTotals ==
  [][Ingests => CountsKept /\ Totals(queues') = Totals(queues)]_vars

\* the event names of the alerts the 10 s alert pass raises
PeriodicEvents == {"high-failure-rate", "queue-backlog", "queue-paused", "slow-processing"}

\* C37: once a critical alert has been appended, the status of
\* getSystemHealth is critical until clearAlerts is called or 50 further
\* alerts, of any severity and origin, have been appended after it.
C37_CriticalUntilClearedOrEvicted ==
  \A i \in 1..Len(created) :
    created[i].severity = "critical" /\ Len(created) - i < AlertCapacity
    => getSystemHealth.status = "critical"

\* a critical alert was appended and never cleared; the alert passes of a
\* persisting condition alone have appended 50 alerts or more after it, and
\* the status is no longer critical
C37_Witness ==
  /\ \E i \in 1..Len(created) :
       /\ created[i].severity = "critical"
       /\ Len(created) - i >= AlertCapacity
       /\ \A j \in (i + 1)..Len(created) : created[j].event \in PeriodicEvents
  /\ getSystemHealth.status = "warning"

\* C38: when several refreshes of a queue are in flight at once, the
\* snapshot left after all of them have completed holds the counts read by
\* the query that started last: an older, slower query never overwrites a
\* newer result.
C38_NewestRefreshWins ==
  used.cycles > 0 /\ cycles = <<>>
  => \A queueName \in QueueSet : Carries(queues, queueName, CountsAt(used.cycles))

\* C39: when two remove(name) calls for the same registered entry run
\* concurrently, the second looking the entry up before the removal of the
\* first has been carried out, at most one of them returns true.
C39_OneConcurrentRemoveWins ==
  \A i \in Calls, j \in Calls :
    ( /\ i < j
      /\ callLog[i].op = "remove" /\ callLog[j].op = "remove"
      /\ callLog[i].jobs # {} /\ callLog[i].jobs = callLog[j].jobs
      /\ \A k \in (i + 1)..(j - 1) : callLog[k].op # "add" )
    => ~(callLog[i].result = "true" /\ callLog[j].result = "true")

====
